---- MODULE Spec2Model ----
(***************************************************************************)
(* Model of generate_workday_commits.py: main() resolves a date range,     *)
(* collects its workdays, removes sampled vacation days, generates the     *)
(* commits of every remaining workday (generate_commits_for_day) and       *)
(* renders them as a shell script (generate_shell_script).                 *)
(*                                                                         *)
(* A datetime is <<year, month, day>> (its time of day is 00:00:00 until   *)
(* a commit time replaces it); a formatted timestamp is the record of the  *)
(* fields strftime prints plus the separator between date and time.        *)
(***************************************************************************)
EXTENDS Integers, Sequences, FiniteSets

\* ------------------------------------------------------------------------
\* Bounds of the explored inputs
\* ------------------------------------------------------------------------
\* --start-date ranges over 2024-01-01 .. 2024-01-<MaxStartDay>
MaxStartDay == 7
\* --end-date ranges over 2024-01-01 .. 2024-01-<MaxEndDay>
MaxEndDay == 9
\* --months ranges over 0 .. MaxMonths
MaxMonths == 1
\* --vacation-days ranges over -1 .. MaxVacation
MaxVacation == 2
\* --min-commits and --max-commits range over 0 .. MaxCommits
MaxCommits == 10
\* days of at most WideUpTo commits are generated with wide random draws
WideUpTo == 1

\* ------------------------------------------------------------------------
\* datetime arithmetic (proleptic Gregorian calendar, as datetime does it)
\* ------------------------------------------------------------------------
NoDate == <<>>

Min(a, b) == IF a < b THEN a ELSE b

Max(a, b) == IF a > b THEN a ELSE b

is_leap(year) == year % 4 = 0 /\ (year % 100 # 0 \/ year % 400 = 0)

DAYS_IN_MONTH == <<31, 28, 31, 30, 31, 30, 31, 31, 30, 31, 30, 31>>

DAYS_BEFORE_MONTH == <<0, 31, 59, 90, 120, 151, 181, 212, 243, 273, 304, 334>>

days_before_year(year) ==
    LET y == year - 1 IN y * 365 + (y \div 4) - (y \div 100) + (y \div 400)

days_before_month(year, month) ==
    DAYS_BEFORE_MONTH[month] + (IF month > 2 /\ is_leap(year) THEN 1 ELSE 0)

\* date.toordinal(): 0001-01-01 is day 1
ymd2ord(date) ==
    days_before_year(date[1]) + days_before_month(date[1], date[2]) + date[3]

\* date.fromordinal()
ord2ymd(ordinal) ==
    LET n0   == ordinal - 1
        n400 == n0 \div 146097
        r400 == n0 % 146097
        n100 == r400 \div 36524
        r100 == r400 % 36524
        n4   == r100 \div 1461
        r4   == r100 % 1461
        n1   == r4 \div 365
        n    == r4 % 365
        year == n400 * 400 + 1 + n100 * 100 + n4 * 4 + n1
        leap == n1 = 3 /\ (n4 # 24 \/ n100 = 3)
        m0   == (n + 50) \div 32
        p0   == DAYS_BEFORE_MONTH[m0] + (IF m0 > 2 /\ leap THEN 1 ELSE 0)
        month == IF p0 > n THEN m0 - 1 ELSE m0
        preceding ==
            IF p0 > n
            THEN p0 - (DAYS_IN_MONTH[month] + (IF month = 2 /\ leap THEN 1 ELSE 0))
            ELSE p0
    IN  IF n1 = 4 \/ n100 = 4
        THEN <<year - 1, 12, 31>>
        ELSE <<year, month, n - preceding + 1>>

\* date + timedelta(days=n)
AddDays(date, n) == ord2ymd(ymd2ord(date) + n)

\* date.weekday(): Monday = 0 .. Sunday = 6
weekday(date) == (ymd2ord(date) + 6) % 7

\* datetime comparison a < b (both at 00:00:00)
Before(a, b) ==
    \/ a[1] < b[1]
    \/ a[1] = b[1] /\ a[2] < b[2]
    \/ a[1] = b[1] /\ a[2] = b[2] /\ a[3] < b[3]

\* datetime.strptime(text, "%Y-%m-%d") of a well-formed date string
strptime(text) == <<text[1], text[2], text[3]>>

is_workdayMutant(date) == weekday(date) < 6

is_workday(date) == weekday(date) < 5

\* ------------------------------------------------------------------------
\* State
\* ------------------------------------------------------------------------
VARIABLES
    pc,              \* position in main()
    exception,       \* "" or the name of the exception that ended the run
    args,            \* the parsed command line (argparse namespace)
    rng,             \* the random source: which outcomes of a draw are explored
    start_date,      \* main: start_date
    end_date,        \* main: end_date (exclusive)
    current,         \* main: current, the date the collection loop looks at
    workdays,        \* main: workdays
    vacation_days,   \* main: vacation_days
    day,             \* main: position of the generation loop in workdays
    num_commits,     \* main: num_commits of the current workday
    selected_hours,  \* generate_commits_for_day: selected_hours
    i,               \* generate_commits_for_day: position of the commit loop
    commits,         \* generate_commits_for_day: commits
    all_commits,     \* main: all_commits
    script_lines,    \* generate_shell_script: script_lines
    c,               \* generate_shell_script: position of the loop over commits
    output           \* the file at args.output: its text and permission bits

vars == <<pc, exception, args, rng, start_date, end_date, current, workdays,
          vacation_days, day, num_commits, selected_hours, i, commits,
          all_commits, script_lines, c, output>>

calendarVars == <<start_date, end_date, current, workdays, vacation_days>>

dayVars == <<num_commits, selected_hours, i, commits>>

outVars == <<script_lines, c, output>>

Range(seq) == {seq[k] : k \in 1..Len(seq)}

\* random.sample(population, k) as the set of positions it can pick out of a
\* population of n elements: every set of k distinct positions
RECURSIVE sample_positions(_, _)
sample_positions(n, k) ==
    IF k = 0 THEN {{}}
    ELSE IF n < k THEN {}
    ELSE sample_positions(n - 1, k)
         \cup {s \cup {n} : s \in sample_positions(n - 1, k - 1)}

NoFile == [text |-> <<>>, mode |-> 0]

\* the locals of main() and of the functions it calls, before they are set
NoLocals ==
    /\ exception = ""
    /\ start_date = NoDate
    /\ end_date = NoDate
    /\ current = NoDate
    /\ workdays = <<>>
    /\ vacation_days = 0
    /\ day = 0
    /\ num_commits = 0
    /\ selected_hours = <<>>
    /\ i = 0
    /\ commits = <<>>
    /\ script_lines = <<>>
    /\ c = 0
    /\ output = NoFile

\* main() right after parser.parse_args()
Unset ==
    /\ pc = "parsed"
    /\ all_commits = <<>>
    /\ NoLocals

\* ------------------------------------------------------------------------
\* main(): the date range, the workdays, the vacation days
\* ------------------------------------------------------------------------
ResolveDatesMutant ==
    /\ pc = "parsed"
    /\ LET s == IF args.start_date # NoDate
                THEN strptime(args.start_date)
                ELSE <<args.year, 1, 1>>
           e == IF args.end_date # NoDate
                THEN strptime(args.end_date)
                ELSE AddDays(s, 30 * args.months)
       IN  /\ start_date' = s
           /\ end_date' = e
           /\ current' = s
    /\ workdays' = <<>>
    /\ pc' = "collect"
    /\ UNCHANGED <<exception, args, rng, vacation_days, day, dayVars,
                   all_commits, outVars>>

\* start_date and end_date from --start-date / --year and --end-date / --months
ResolveDates ==
    /\ pc = "parsed"
    /\ LET s == IF args.start_date # NoDate
                THEN strptime(args.start_date)
                ELSE <<args.year, 1, 1>>
           e == IF args.end_date # NoDate
                THEN AddDays(strptime(args.end_date), 1)
                ELSE AddDays(s, 30 * args.months)
       IN  /\ start_date' = s
           /\ end_date' = e
           /\ current' = s
    /\ workdays' = <<>>
    /\ pc' = "collect"
    /\ UNCHANGED <<exception, args, rng, vacation_days, day, dayVars,
                   all_commits, outVars>>

\* one turn of `while current < end_date`
CollectWorkday ==
    /\ pc = "collect"
    /\ Before(current, end_date)
    /\ workdays' = IF is_workday(current) THEN Append(workdays, current) ELSE workdays
    /\ current' = AddDays(current, 1)
    /\ UNCHANGED <<pc, exception, args, rng, start_date, end_date, vacation_days,
                   day, dayVars, all_commits, outVars>>

CollectDone ==
    /\ pc = "collect"
    /\ ~Before(current, end_date)
    /\ pc' = "vacation"
    /\ UNCHANGED <<exception, args, rng, calendarVars, day, dayVars,
                   all_commits, outVars>>

\* int(count * 0.08): the float product truncates to the same integer as
\* 8 * count \div 100 for every count below 5000
auto_vacation_daysMutant(count) == Max(1, (count * 8 + 50) \div 100)

auto_vacation_days(count) == Max(1, (count * 8) \div 100)

ResolveVacation ==
    /\ pc = "vacation"
    /\ vacation_days' = IF args.vacation_days < 0
                        THEN auto_vacation_days(Len(workdays))
                        ELSE args.vacation_days
    /\ pc' = "sample"
    /\ UNCHANGED <<exception, args, rng, start_date, end_date, current, workdays,
                   day, dayVars, all_commits, outVars>>

clamp_vacationMutant(requested, count) == Min(requested, count)

\* min(vacation_days, len(workdays) - 1)
clamp_vacation(requested, count) == Min(requested, count - 1)

\* `if vacation_days > 0:` and its body, then the two summary prints
SampleVacation ==
    /\ pc = "sample"
    /\ IF vacation_days > 0
       THEN LET k == clamp_vacation(vacation_days, Len(workdays)) IN
            IF k < 0 \/ k > Len(workdays)
            THEN \* random.sample raises ValueError
                 /\ exception' = "ValueError"
                 /\ vacation_days' = k
                 /\ pc' = "exit"
                 /\ UNCHANGED <<workdays, day>>
            ELSE \E picked \in sample_positions(Len(workdays), k) :
                 LET vacation_day_list == {workdays[p] : p \in picked}
                     kept(d) == d \notin vacation_day_list
                 IN  /\ workdays' = SelectSeq(workdays, kept)
                     /\ vacation_days' = k
                     /\ exception' = exception
                     /\ day' = 1
                     /\ pc' = "days"
       ELSE /\ day' = 1
            /\ pc' = "days"
            /\ UNCHANGED <<exception, workdays, vacation_days>>
    /\ UNCHANGED <<args, rng, start_date, end_date, current, dayVars,
                   all_commits, outVars>>

\* ------------------------------------------------------------------------
\* Random draws
\* ------------------------------------------------------------------------
\* rng.hours: random.sample(work_hours, k) picks among the first k + rng.hours
\*            work hours (every k-subset of them);
\* rng.clock: how many of CLOCK_DRAWS a (minute, second) draw can yield;
\* rng.text:  how many leading entries of a list random.choice can yield while
\*            a commit message is generated.
\* random.randint(min, max), random.choice(work_hours) and the vacation sample
\* always range over all their outcomes.
Leading(seq, width) == {seq[k] : k \in 1..Min(width, Len(seq))}

\* random.randint(a, b)
randint(a, b) == a..b

MINUTESMutant == 0..60

\* random.randint(0, 59) for the minute, and for the second
MINUTES == 0..59

SECONDS == 0..59

Lowest(S) == CHOOSE x \in S : \A y \in S : x <= y

Highest(S) == CHOOSE x \in S : \A y \in S : x >= y

\* the (minute, second) draws explored: the corners of MINUTES \X SECONDS
CLOCK_DRAWS ==
    << <<Highest(MINUTES), Highest(SECONDS)>>, <<Lowest(MINUTES), Lowest(SECONDS)>>,
       <<Lowest(MINUTES), Highest(SECONDS)>>, <<Highest(MINUTES), Lowest(SECONDS)>> >>

\* ------------------------------------------------------------------------
\* generate_commit_message
\* ------------------------------------------------------------------------
\* COMMIT_MESSAGES: the number of templates of each category
TEMPLATES ==
    [morning |-> 5, development |-> 8, bugfix |-> 5, review |-> 5,
     planning |-> 5, endofday |-> 5]

\* the categories random.choice picks from at each hour
categories(hour) ==
    IF hour < 10 THEN <<"morning">>
    ELSE IF hour < 12 THEN <<"development", "bugfix", "review">>
    ELSE IF hour < 14 THEN <<"planning", "review">>
    ELSE IF hour < 17 THEN <<"development", "bugfix", "review">>
    ELSE <<"endofday">>

\* a rendered message is the category and the template it was rendered from;
\* the filler words template.format() puts in are left out
generate_commit_message(hour, width) ==
    UNION {{[category |-> cat, template |-> t] :
                t \in 1..Min(width, TEMPLATES[cat])} :
           cat \in Leading(categories(hour), width)}

\* ------------------------------------------------------------------------
\* generate_commits_for_day, called from the loop over workdays in main()
\* ------------------------------------------------------------------------
\* list(range(9, 18))
work_hours == <<9, 10, 11, 12, 13, 14, 15, 16, 17>>

RECURSIVE ascending(_)
\* sorted() of a list of distinct numbers, given as their set
ascending(S) ==
    IF S = {} THEN <<>>
    ELSE LET m == Lowest(S) IN <<m>> \o ascending(S \ {m})

RECURSIVE sorted(_)
\* sorted() of a list of numbers
sorted(seq) ==
    IF seq = <<>> THEN <<>>
    ELSE LET rest == sorted(Tail(seq))
             x    == Head(seq)
             p    == Cardinality({k \in 1..Len(rest) : rest[k] < x})
         IN  SubSeq(rest, 1, p) \o <<x>> \o SubSeq(rest, p + 1, Len(rest))

\* seq[:n] for n >= 0
prefix(seq, n) == SubSeq(seq, 1, Min(n, Len(seq)))

\* commit_time.strftime("%Y-%m-%d" + sep + "%H:%M:%S")
strftime(date, hour, minute, second, sep) ==
    [year |-> date[1], month |-> date[2], day |-> date[3], sep |-> sep,
     hour |-> hour, minute |-> minute, second |-> second]

\* the dict generate_commits_for_day appends for one commit; content is
\* f"[{timestamp}] {message}\n"
commit_record(date, hour, minute, second, message) ==
    LET timestamp == strftime(date, hour, minute, second, " ") IN
    [timestamp |-> timestamp,
     iso_timestamp |-> strftime(date, hour, minute, second, "T"),
     message |-> message,
     content |-> [timestamp |-> timestamp, message |-> message, eol |-> "\n"]]

DrawNumCommitsMutant ==
    /\ pc = "days"
    /\ day <= Len(workdays)
    /\ \E n \in randint(args.min_commits, args.max_commits + 1) : num_commits' = n
    /\ pc' = "hours"
    /\ UNCHANGED <<exception, args, rng, calendarVars, day, selected_hours, i,
                   commits, all_commits, outVars>>

\* `for workday in workdays:` num_commits = random.randint(min, max)
DrawNumCommits ==
    /\ pc = "days"
    /\ day <= Len(workdays)
    /\ IF args.min_commits > args.max_commits
       THEN \* random.randint raises ValueError on an empty range
            /\ exception' = "ValueError"
            /\ pc' = "exit"
            /\ UNCHANGED num_commits
       ELSE /\ \E n \in randint(args.min_commits, args.max_commits) :
                    num_commits' = n
            /\ pc' = "hours"
            /\ UNCHANGED exception
    /\ UNCHANGED <<args, rng, calendarVars, day, selected_hours, i, commits,
                   all_commits, outVars>>

\* commits = []; selected_hours = sorted(random.sample(work_hours, min(n, 9)))
SampleHours ==
    /\ pc = "hours"
    /\ LET k == Min(num_commits, Len(work_hours)) IN
       IF k < 0
       THEN \* random.sample raises ValueError
            /\ exception' = "ValueError"
            /\ pc' = "exit"
            /\ UNCHANGED selected_hours
       ELSE /\ \E picked \in
                  sample_positions(Min(k + rng.hours, Len(work_hours)), k) :
                    selected_hours' = ascending({work_hours[p] : p \in picked})
            /\ pc' = "fill"
            /\ UNCHANGED exception
    /\ commits' = <<>>
    /\ UNCHANGED <<args, rng, calendarVars, day, num_commits, i, all_commits,
                   outVars>>

\* one turn of `while len(selected_hours) < num_commits`
AppendHour ==
    /\ pc = "fill"
    /\ Len(selected_hours) < num_commits
    /\ \E hour \in Range(work_hours) :
            selected_hours' = Append(selected_hours, hour)
    /\ UNCHANGED <<pc, exception, args, rng, calendarVars, day, num_commits, i,
                   commits, all_commits, outVars>>

SortHoursMutant ==
    /\ pc = "fill"
    /\ ~(Len(selected_hours) < num_commits)
    /\ selected_hours' = prefix(selected_hours, num_commits)
    /\ i' = 1
    /\ pc' = "commit"
    /\ UNCHANGED <<exception, args, rng, calendarVars, day, num_commits, commits,
                   all_commits, outVars>>

\* selected_hours = sorted(selected_hours[:num_commits])
SortHours ==
    /\ pc = "fill"
    /\ ~(Len(selected_hours) < num_commits)
    /\ selected_hours' = sorted(prefix(selected_hours, num_commits))
    /\ i' = 1
    /\ pc' = "commit"
    /\ UNCHANGED <<exception, args, rng, calendarVars, day, num_commits, commits,
                   all_commits, outVars>>

\* one turn of `for i, hour in enumerate(selected_hours)`
MakeCommit ==
    /\ pc = "commit"
    /\ i <= Len(selected_hours)
    /\ LET hour == selected_hours[i]
           date == workdays[day]
       IN  \E clock \in Leading(CLOCK_DRAWS, rng.clock),
              message \in generate_commit_message(hour, rng.text) :
             commits' = Append(commits,
                               commit_record(date, hour, clock[1], clock[2], message))
    /\ i' = i + 1
    /\ UNCHANGED <<pc, exception, args, rng, calendarVars, day, num_commits,
                   selected_hours, all_commits, outVars>>

\* return commits; all_commits.extend(day_commits)
ReturnCommits ==
    /\ pc = "commit"
    /\ i > Len(selected_hours)
    /\ all_commits' = all_commits \o commits
    /\ day' = day + 1
    /\ pc' = "days"
    /\ UNCHANGED <<exception, args, rng, calendarVars, num_commits,
                   selected_hours, i, commits, outVars>>

\* the loop over workdays ends; the total is printed
DaysDone ==
    /\ pc = "days"
    /\ day > Len(workdays)
    /\ pc' = "script"
    /\ UNCHANGED <<exception, args, rng, calendarVars, day, dayVars, all_commits,
                   outVars>>

\* ------------------------------------------------------------------------
\* generate_shell_script, and the rest of main()
\* ------------------------------------------------------------------------
\* a script line is its fixed text (cmd) and the value formatted into it
Line(cmd) == [cmd |-> cmd, arg |-> <<>>]

LineWith(cmd, value) == [cmd |-> cmd, arg |-> <<value>>]

\* content.rstrip(): the trailing newline goes
rstrip(content) == [content EXCEPT !.eol = ""]

HEADER(filename) ==
    << Line("#!/bin/bash"),
       Line("# Auto-generated commit script"),
       Line("# Run this in your git repository"),
       Line(""),
       Line("set -e"),
       Line(""),
       LineWith("FILE=", filename),
       Line(""),
       Line("# Ensure file exists"),
       Line("touch \"$FILE\""),
       Line("") >>

BLOCKMutant(commit) ==
    << LineWith("# Commit: ", commit.message),
       LineWith("echo >> \"$FILE\"", rstrip(commit.content)),
       LineWith("export GIT_AUTHOR_DATE=", commit.iso_timestamp),
       LineWith("export GIT_COMMITTER_DATE=", commit.timestamp),
       Line("git add \"$FILE\""),
       LineWith("git commit -m ", commit.message),
       Line("") >>

\* the lines script_lines.extend() adds for one commit
BLOCK(commit) ==
    << LineWith("# Commit: ", commit.message),
       LineWith("echo >> \"$FILE\"", rstrip(commit.content)),
       LineWith("export GIT_AUTHOR_DATE=", commit.iso_timestamp),
       LineWith("export GIT_COMMITTER_DATE=", commit.iso_timestamp),
       Line("git add \"$FILE\""),
       LineWith("git commit -m ", commit.message),
       Line("") >>

FOOTER ==
    << Line("echo 'All commits created successfully!'"),
       Line("git log --oneline -10") >>

\* script_lines = [...] up to the loop over commits
ScriptHeader ==
    /\ pc = "script"
    /\ script_lines' = HEADER(args.file)
    /\ c' = 1
    /\ pc' = "blocks"
    /\ UNCHANGED <<exception, args, rng, calendarVars, day, dayVars, all_commits,
                   output>>

\* one turn of `for commit in commits`
ScriptBlock ==
    /\ pc = "blocks"
    /\ c <= Len(all_commits)
    /\ script_lines' = script_lines \o BLOCK(all_commits[c])
    /\ c' = c + 1
    /\ UNCHANGED <<pc, exception, args, rng, calendarVars, day, dayVars,
                   all_commits, output>>

\* the closing lines; the function returns the lines joined by newlines
ScriptFooter ==
    /\ pc = "blocks"
    /\ c > Len(all_commits)
    /\ script_lines' = script_lines \o FOOTER
    /\ pc' = "write"
    /\ UNCHANGED <<exception, args, rng, calendarVars, day, dayVars, all_commits,
                   c, output>>

\* output_path.write_text(script_content); output_path.chmod(0o755)
WriteScript ==
    /\ pc = "write"
    /\ output' = [text |-> script_lines, mode |-> 493]
    /\ pc' = "report"
    /\ UNCHANGED <<exception, args, rng, calendarVars, day, dayVars, all_commits,
                   script_lines, c>>

\* the usage notes and the preview of the first five commits are printed
Report ==
    /\ pc = "report"
    /\ pc' = "done"
    /\ UNCHANGED <<exception, args, rng, calendarVars, day, dayVars, all_commits,
                   outVars>>

\* ------------------------------------------------------------------------
\* The calendar phase on its own: main() up to the generation loop
\* ------------------------------------------------------------------------
NoDraws == [hours |-> 0, clock |-> 0, text |-> 0]

DefaultArgs ==
    [year |-> 2024, start_date |-> NoDate, end_date |-> NoDate, months |-> 12,
     min_commits |-> 3, max_commits |-> 5, vacation_days |-> -1,
     file |-> "work.log", output |-> "create_commits.sh"]

\* the start of the range: --year alone, or --start-date
YearStarts == {[year |-> y, start_date |-> NoDate] : y \in {2024, 2025}}

DateStarts ==
    {[year |-> 2024, start_date |-> <<2024, 1, d>>] : d \in 1..MaxStartDay}
    \cup {[year |-> 2024, start_date |-> <<2024, 2, 27>>]}

\* the end of the range: --months alone, or --end-date
MonthEnds == {[end_date |-> NoDate, months |-> m] : m \in 0..MaxMonths}

DateEnds == {[end_date |-> <<2024, 1, d>>, months |-> 12] : d \in 1..MaxEndDay}

WithRange(s, e, v) ==
    [DefaultArgs EXCEPT !.year = s.year, !.start_date = s.start_date,
                        !.end_date = e.end_date, !.months = e.months,
                        !.vacation_days = v]

\* short ranges given by dates from every start, and ranges of whole months
\* from the first of a year and from the end of a leap February
CalendarArgs ==
    {WithRange(s, e, v) :
        s \in YearStarts \cup DateStarts, e \in DateEnds, v \in -1..MaxVacation}
    \cup {WithRange(s, e, v) :
        s \in YearStarts \cup {[year |-> 2024, start_date |-> <<2024, 2, 27>>]},
        e \in MonthEnds, v \in -1..MaxVacation}

InitCalendar ==
    /\ args \in CalendarArgs
    /\ rng = NoDraws
    /\ Unset

NextCalendar ==
    \/ ResolveDates
    \/ CollectWorkday
    \/ CollectDone
    \/ ResolveVacation
    \/ SampleVacation

SpecCalendar == InitCalendar /\ [][NextCalendar]_vars

\* ------------------------------------------------------------------------
\* One workday on its own: the generation loop of main() over a single day
\* ------------------------------------------------------------------------
WideDraws == [hours |-> 9, clock |-> 4, text |-> 2]

NarrowDraws == [hours |-> 9, clock |-> 2, text |-> 1]

LeapDay == <<2024, 2, 29>>

\* --max-commits minus --min-commits
Spreads == {0, 1}

DayArgs ==
    {[DefaultArgs EXCEPT !.start_date = LeapDay, !.end_date = LeapDay,
                         !.vacation_days = 0,
                         !.min_commits = lo, !.max_commits = hi] :
        lo \in 0..MaxCommits, hi \in 0..MaxCommits}

\* main() has collected the one workday of the range and is about to generate
InitDay ==
    /\ args \in {a \in DayArgs : a.max_commits - a.min_commits \in Spreads}
    /\ rng = IF args.max_commits <= WideUpTo THEN WideDraws ELSE NarrowDraws
    /\ pc = "days"
    /\ exception = ""
    /\ start_date = LeapDay
    /\ end_date = AddDays(LeapDay, 1)
    /\ current = AddDays(LeapDay, 1)
    /\ workdays = <<LeapDay>>
    /\ vacation_days = 0
    /\ day = 1
    /\ num_commits = 0
    /\ selected_hours = <<>>
    /\ i = 0
    /\ commits = <<>>
    /\ all_commits = <<>>
    /\ script_lines = <<>>
    /\ c = 0
    /\ output = NoFile

NextDay ==
    \/ DrawNumCommits
    \/ SampleHours
    \/ AppendHour
    \/ SortHours
    \/ MakeCommit
    \/ ReturnCommits
    \/ DaysDone

SpecDay == InitDay /\ [][NextDay]_vars

\* ------------------------------------------------------------------------
\* generate_shell_script on its own, on any list of commit records
\* ------------------------------------------------------------------------
\* the longest commit list given to generate_shell_script
MaxScriptCommits == 3

MORNING == [category |-> "morning", template |-> 1]

ENDOFDAY == [category |-> "endofday", template |-> 2]

SomeCommits ==
    { commit_record(LeapDay, 17, 59, 59, ENDOFDAY),
      commit_record(LeapDay, 9, 0, 0, MORNING),
      commit_record(<<2024, 3, 1>>, 9, 0, 59, MORNING) }

RECURSIVE ListsUpTo(_, _)
\* the lists of at most n elements of S
ListsUpTo(S, n) ==
    IF n = 0 THEN {<<>>}
    ELSE LET shorter == ListsUpTo(S, n - 1)
         IN  shorter \cup {Append(l, x) : l \in shorter, x \in S}

InitScript ==
    /\ args \in {[DefaultArgs EXCEPT !.file = f] : f \in {"work.log", "notes.md"}}
    /\ rng = NoDraws
    /\ NoLocals
    /\ all_commits \in ListsUpTo(SomeCommits, MaxScriptCommits)
    /\ pc = "script"

NextScript ==
    \/ ScriptHeader
    \/ ScriptBlock
    \/ ScriptFooter

SpecScript == InitScript /\ [][NextScript]_vars

\* ------------------------------------------------------------------------
\* The whole run of main()
\* ------------------------------------------------------------------------
\* --end-date ranges over 2024-01-01 .. 2024-01-<MaxRunEndDay>
MaxRunEndDay == 5

RunDraws == [hours |-> 1, clock |-> 1, text |-> 1]

\* <<--min-commits, --max-commits>> of the runs over several days
RunCommitCounts == {<<1, 1>>, <<1, 2>>, <<2, 2>>}

NewYear == <<2024, 1, 1>>

WithCommits(a, lo, hi) == [a EXCEPT !.min_commits = lo, !.max_commits = hi]

\* runs from 2024-01-01 to a given end date
WeekRuns ==
    {WithCommits(WithRange([year |-> 2024, start_date |-> NewYear],
                           [end_date |-> <<2024, 1, d>>, months |-> 12], v),
                 n[1], n[2]) :
        d \in 1..MaxRunEndDay, v \in -1..1, n \in RunCommitCounts}

\* runs over the single day 2024-01-01
OneDayRuns(counts) ==
    {WithCommits(WithRange([year |-> 2024, start_date |-> NewYear],
                           [end_date |-> NewYear, months |-> 12], 0), n, n) :
        n \in counts}

Init ==
    /\ Unset
    /\ \/ args \in WeekRuns /\ rng = RunDraws
       \/ args \in OneDayRuns({MaxCommits}) /\ rng = RunDraws
       \/ args \in OneDayRuns(1..WideUpTo) /\ rng = WideDraws

Next ==
    \/ ResolveDates
    \/ CollectWorkday
    \/ CollectDone
    \/ ResolveVacation
    \/ SampleVacation
    \/ DrawNumCommits
    \/ SampleHours
    \/ AppendHour
    \/ SortHours
    \/ MakeCommit
    \/ ReturnCommits
    \/ DaysDone
    \/ ScriptHeader
    \/ ScriptBlock
    \/ ScriptFooter
    \/ WriteScript
    \/ Report

Spec == Init /\ [][Next]_vars

\* ------------------------------------------------------------------------
\* Properties of the calendar phase
\* ------------------------------------------------------------------------
\* the dates d with start_date <= d < end_date, as day numbers
DatesInRange == ymd2ord(start_date)..(ymd2ord(end_date) - 1)

\* those of them that fall on Monday .. Friday (day 1, 0001-01-01, is a Monday)
RawWorkdays == {o \in DatesInRange : (o - 1) % 7 \in 0..4}

Ordinals(dates) == {ymd2ord(d) : d \in Range(dates)}

Ascending(dates) ==
    \A a \in 1..(Len(dates) - 1) : Before(dates[a], dates[a + 1])

\* the vacation-day count main() works with before it clamps it
RequestedVacation ==
    IF args.vacation_days < 0
    THEN auto_vacation_days(Cardinality(RawWorkdays))
    ELSE args.vacation_days

C4_WorkdaysOnly ==
    /\ \A d \in Range(workdays) : weekday(d) \in 0..4
    /\ Ascending(workdays)
    /\ pc \in {"vacation", "sample"} => Ordinals(workdays) = RawWorkdays
    /\ pc = "days" => Ordinals(workdays) \subseteq RawWorkdays

C4_Witness ==
    /\ pc = "days"
    /\ Len(workdays) >= 5
    /\ Len(workdays) < Cardinality(RawWorkdays)
    /\ \E o \in DatesInRange : (o - 1) % 7 \in {5, 6}

\* C5: a vacation-day count above the number of workdays is clamped and never
\* makes the run fail, for every raw workday count including 0 and 1.
C5_VacationNeverFails == exception = ""

\* C9 as claimed: the auto-derived vacation-day count is max(1, round(0.08 W)),
\* rounding to the nearest integer (8 W / 100 never lies halfway).
C9_AsClaimed ==
    pc = "sample" /\ args.vacation_days < 0 =>
        vacation_days = Max(1, (8 * Len(workdays) + 50) \div 100)

\* C9 amended: the auto-derived count is max(1, 0.08 W truncated to an integer):
\* it is 1 while 0.08 W < 2, and otherwise the v with v <= 0.08 W < v + 1.
C9_AutoVacationTruncates ==
    pc = "sample" /\ args.vacation_days < 0 =>
        LET W == Len(workdays)
            v == vacation_days
        IN  /\ v >= 1
            /\ v = 1 => 8 * W < 200
            /\ v > 1 => 100 * v <= 8 * W /\ 8 * W < 100 * (v + 1)

C9_Witness ==
    /\ pc = "sample"
    /\ args.vacation_days < 0
    /\ (8 * Len(workdays)) % 100 >= 50
    /\ Len(workdays) >= 19

\* ------------------------------------------------------------------------
\* Properties of commit generation
\* ------------------------------------------------------------------------
DateOf(commit) ==
    <<commit.timestamp.year, commit.timestamp.month, commit.timestamp.day>>

\* timestamp a is not later than timestamp b
NotLaterStamp(a, b) ==
    LET da == <<a.year, a.month, a.day>>
        db == <<b.year, b.month, b.day>>
        ta == a.hour * 3600 + a.minute * 60 + a.second
        tb == b.hour * 3600 + b.minute * 60 + b.second
    IN  Before(da, db) \/ (da = db /\ ta <= tb)

\* commit a is not later than commit b
NotLater(a, b) == NotLaterStamp(a.timestamp, b.timestamp)

Chronological(list) ==
    \A k \in 1..(Len(list) - 1) : NotLater(list[k], list[k + 1])

\* C1: the commit list is chronologically ordered: within a workday the times
\* (hour, minute, second) never decrease from one commit to the next, and the
\* workdays ascend; for every commit count per day, also above 9.
C1_Chronological == Chronological(commits) /\ Chronological(all_commits)

\* C6: generate_commits_for_day returns exactly num_commits commits, and every
\* generated workday has between min-commits and max-commits of them, also
\* when the bounds exceed the 9 hour slots.
C6_CommitCountInBounds ==
    /\ pc = "commit" /\ i > Len(selected_hours) =>
           /\ Len(commits) = num_commits
           /\ args.min_commits <= Len(commits)
           /\ Len(commits) <= args.max_commits
    /\ \A d \in 1..Len(workdays) :
           d < day =>
               LET n == Cardinality({k \in 1..Len(all_commits) :
                                        DateOf(all_commits[k]) = workdays[d]})
               IN  args.min_commits <= n /\ n <= args.max_commits

C6_Witness ==
    /\ pc = "days"
    /\ day = 2
    /\ args.min_commits < args.max_commits
    /\ Len(all_commits) = args.max_commits
    /\ Len(all_commits) > 9

InClock(stamp, date) ==
    /\ stamp.hour \in 9..17
    /\ stamp.minute \in 0..59
    /\ stamp.second \in 0..59
    /\ <<stamp.year, stamp.month, stamp.day>> = date

\* C8: every commit record has its hour in [9,18), its minute and second in
\* [0,59] and the date of the workday it was generated for, also for counts
\* above 9.
C8_TimeInWorkHours ==
    /\ pc = "commit" =>
           \A k \in 1..Len(commits) :
               /\ InClock(commits[k].timestamp, workdays[day])
               /\ InClock(commits[k].iso_timestamp, workdays[day])
    /\ \A k \in 1..Len(all_commits) :
           \E d \in 1..Len(workdays) :
               /\ d < day
               /\ InClock(all_commits[k].timestamp, workdays[d])
               /\ InClock(all_commits[k].iso_timestamp, workdays[d])

C8_Witness ==
    /\ Len(all_commits) > 9
    /\ \E k \in 1..Len(all_commits) : all_commits[k].timestamp.minute = 59
    /\ \E k \in 1..Len(all_commits) : all_commits[k].timestamp.second = 0
    /\ \E k \in 1..Len(all_commits) : all_commits[k].timestamp.hour = 17

\* C10: the selected hours are sorted ascending; up to 9 requested commits they
\* are pairwise distinct; above 9 every hour of 9..17 is used and only the
\* other n - 9 slots repeat an hour.
C10_HourSelection ==
    pc = "commit" =>
        /\ Len(selected_hours) = num_commits
        /\ \A k \in 1..(Len(selected_hours) - 1) :
               selected_hours[k] <= selected_hours[k + 1]
        /\ Range(selected_hours) \subseteq 9..17
        /\ num_commits <= 9 => Cardinality(Range(selected_hours)) = num_commits
        /\ num_commits > 9 => Range(selected_hours) = 9..17

C10_Witness ==
    /\ pc = "commit"
    /\ num_commits > 9
    /\ selected_hours[1] = 9
    /\ selected_hours[2] = 9

\* ------------------------------------------------------------------------
\* Properties of the emitted script
\* ------------------------------------------------------------------------
Positions(lines, cmd) == {k \in 1..Len(lines) : lines[k].cmd = cmd}

BlockCmds ==
    {"# Commit: ", "echo >> \"$FILE\"", "export GIT_AUTHOR_DATE=",
     "export GIT_COMMITTER_DATE=", "git add \"$FILE\"", "git commit -m "}

Is(line, cmd, value) == line.cmd = cmd /\ line.arg = <<value>>

\* C7: the script assigns FILE once, touches it once before any commit block,
\* and then holds one block per commit record, in the order of the list: the
\* commit's log line appended, both dates set to its machine timestamp, the
\* file staged, the commit made with its message; as many stage-and-commit
\* pairs as commit records.
C7_ScriptStructure ==
    pc = "write" =>
        LET n == Len(all_commits)
            first(k) == Len(HEADER(args.file)) + 7 * (k - 1) + 1
        IN  /\ Cardinality(Positions(script_lines, "FILE=")) = 1
            /\ \A p \in Positions(script_lines, "FILE=") :
                   script_lines[p].arg = <<args.file>>
            /\ Cardinality(Positions(script_lines, "touch \"$FILE\"")) = 1
            /\ \A t \in Positions(script_lines, "touch \"$FILE\"") :
                   \A p \in 1..Len(script_lines) :
                       script_lines[p].cmd \in BlockCmds => t < p
            /\ \A cmd \in BlockCmds :
                   Cardinality(Positions(script_lines, cmd)) = n
            /\ \A p \in Positions(script_lines, "git add \"$FILE\"") :
                   script_lines[p + 1].cmd = "git commit -m "
            /\ \A k \in 1..n :
                   LET commit == all_commits[k]
                       b == first(k)
                   IN  /\ Is(script_lines[b], "# Commit: ", commit.message)
                       /\ Is(script_lines[b + 1], "echo >> \"$FILE\"",
                             [timestamp |-> commit.timestamp,
                              message |-> commit.message, eol |-> ""])
                       /\ Is(script_lines[b + 2], "export GIT_AUTHOR_DATE=",
                             commit.iso_timestamp)
                       /\ commit.iso_timestamp.sep = "T"
                       /\ Is(script_lines[b + 3], "export GIT_COMMITTER_DATE=",
                             commit.iso_timestamp)
                       /\ script_lines[b + 4].cmd = "git add \"$FILE\""
                       /\ Is(script_lines[b + 5], "git commit -m ", commit.message)

C7_Witness ==
    /\ pc = "write"
    /\ Len(all_commits) = 3
    /\ ~NotLater(all_commits[1], all_commits[2])
    /\ all_commits[2] # all_commits[3]

\* ------------------------------------------------------------------------
\* The end-to-end example
\* ------------------------------------------------------------------------
\* --start-date 2024-01-01 --end-date 2024-01-05 --min-commits 2
\* --max-commits 2 --vacation-days 0
ExampleArgs ==
    WithCommits(WithRange([year |-> 2024, start_date |-> NewYear],
                          [end_date |-> <<2024, 1, 5>>, months |-> 12], 0), 2, 2)

CommitsOn(date) ==
    Cardinality({k \in 1..Len(all_commits) : DateOf(all_commits[k]) = date})

\* the commit blocks of the written script carry ascending dates
BlocksChronological ==
    \A p, q \in Positions(output.text, "export GIT_AUTHOR_DATE=") :
        p < q => NotLaterStamp(output.text[p].arg[1], output.text[q].arg[1])

ExampleYields(days, total) ==
    /\ Len(workdays) = days
    /\ \A d \in 1..Len(workdays) : CommitsOn(workdays[d]) = 2
    /\ Len(all_commits) = total
    /\ Cardinality(Positions(output.text, "git commit -m ")) = total
    /\ BlocksChronological

\* C3 as claimed: the example yields 4 active workdays of 2 commits each, 8
\* commits, and a script of 8 commit blocks in chronological order.
C3_AsClaimed == pc = "done" /\ args = ExampleArgs => ExampleYields(4, 8)

\* C3 amended: --end-date is inclusive, so the example yields the 5 workdays
\* 2024-01-01 .. 2024-01-05 with 2 commits each, 10 commits, and a script of
\* 10 commit blocks in chronological order.
C3_ExampleYieldsFiveDays ==
    pc = "done" /\ args = ExampleArgs =>
        /\ ExampleYields(5, 10)
        /\ workdays = <<NewYear, <<2024, 1, 2>>, <<2024, 1, 3>>, <<2024, 1, 4>>,
                        <<2024, 1, 5>>>>

C3_Witness ==
    /\ pc = "done"
    /\ args = ExampleArgs
    /\ all_commits[1].timestamp.hour = 10
    /\ all_commits[10].timestamp.hour = 11

====
